---- MODULE Spec2Model ----
(***************************************************************************)
(* Model of gitversion's version resolution (pkg/version/version.go).      *)
(* Strings are sequences of one-character strings, so that slugging,       *)
(* hex/decimal rendering, path handling and concatenation are computed     *)
(* character by character as the Go code does.                             *)
(***************************************************************************)
EXTENDS Integers, Sequences, FiniteSets, TLC

\* ------------------------------------------------------------------ bounds
NumCommits   == 4   \* commits of the general (branching) histories
LinearLen    == 6   \* commits of the linear histories
MaxBranchLen == 3   \* length of the enumerated branch names
MaxFiles     == 2   \* entries of a working-tree status
MaxDepth     == 3   \* depth of the deepest directory of the filesystem

\* ------------------------------------------------------- program constants
ShortLen     == 7   \* head.Hash().String()[:7]
HashLen      == 40  \* length of plumbing.Hash.String()
TimestampLen == 14  \* length of the layout "20060102150405"

\* ------------------------------------------------------------- characters
DigitChars == <<"0","1","2","3","4","5","6","7","8","9">>
HexChars   == <<"0","1","2","3","4","5","6","7","8","9","a","b","c","d","e","f">>
Digit      == {"0","1","2","3","4","5","6","7","8","9"}
HexDigit   == Digit \cup {"a","b","c","d","e","f"}
Lower      == {"a","b","c","d","e","f","g","h","i","j","k","l","m",
               "n","o","p","q","r","s","t","u","v","w","x","y","z"}
Upper      == {"A","B","C","D","E","F","G","H","I","J","K","L","M",
               "N","O","P","Q","R","S","T","U","V","W","X","Y","Z"}

RECURSIVE Dec(_)
\* fmt's %d of a non-negative integer
Dec(n) == IF n < 10 THEN <<DigitChars[n + 1]>>
          ELSE Dec(n \div 10) \o <<DigitChars[(n % 10) + 1]>>

\* time.Format of a zero-padded numeric field of width w
Pad(n, w) == LET d == Dec(n)
             IN  IF Len(d) >= w THEN d ELSE [i \in 1..(w - Len(d)) |-> "0"] \o d

\* plumbing.Hash.String(): the 40 hex digits of an object id
HashString(h) == [i \in 1..HashLen |-> HexChars[((h * (i + 2) + i * i) % 16) + 1]]

\* strings.ReplaceAll(s, old, new) for one-character old and new
ReplaceAll(s, old, new) == [i \in 1..Len(s) |-> IF s[i] = old THEN new ELSE s[i]]

\* strings.HasPrefix / strings.TrimPrefix
HasPrefix(s, p)  == Len(s) >= Len(p) /\ SubSeq(s, 1, Len(p)) = p
TrimPrefix(s, p) == IF HasPrefix(s, p) THEN SubSeq(s, Len(p) + 1, Len(s)) ELSE s

RECURSIVE TrimRight(_, _)
\* strings.TrimRight(s, cutset) for a one-character cutset
TrimRight(s, c) == IF s # <<>> /\ s[Len(s)] = c
                   THEN TrimRight(SubSeq(s, 1, Len(s) - 1), c) ELSE s

\* strings.LastIndex(s, c) for a one-character c, 0-based, -1 when absent
LastIndex(s, c) == LET I == {i \in 1..Len(s) : s[i] = c}
                   IN  IF I = {} THEN -1
                       ELSE (CHOOSE i \in I : \A j \in I : j <= i) - 1

\* ------------------------------------------------------------- createBranchSlug
SlugAllowed(ch) == ch \in Lower \cup Upper \cup Digit \cup {"-"}

\* mutant: a disallowed character is replaced by the separator instead of deleted
createBranchSlug_Substituting(branch) ==
    [i \in 1..Len(branch) |-> IF SlugAllowed(branch[i]) THEN branch[i] ELSE "-"]

createBranchSlug(branch) ==
    LET slug1 == ReplaceAll(branch, "/", "-")
        slug2 == ReplaceAll(slug1, "_", "-")
    IN  SelectSeq(slug2, SlugAllowed)

\* ------------------------------------------------------------------ parentDir
\* mutant: the separator before the last component is kept
parentDir_KeepsSlash(path) ==
    IF path = <<"/">> THEN <<"/">>
    ELSE LET p   == TrimRight(path, "/")
             idx == LastIndex(p, "/")
         IN  IF idx <= 0 THEN <<"/">> ELSE SubSeq(p, 1, idx + 1)

parentDir(path) ==
    IF path = <<"/">> THEN <<"/">>
    ELSE LET p   == TrimRight(path, "/")
             idx == LastIndex(p, "/")
         IN  IF idx <= 0 THEN <<"/">> ELSE SubSeq(p, 1, idx)

\* ------------------------------------------------------------------ literals
sMain    == <<"m","a","i","n">>
sMaster  == <<"m","a","s","t","e","r">>
sDev     == <<"d","e","v">>
sHEAD    == <<"H","E","A","D">>
sOrigin  == <<"o","r","i","g","i","n","/">>
sGit     == <<"/",".","g","i","t">>
sTagV1   == <<"v","1",".","0",".","0">>
sTagV2   == <<"v","2">>
sFeature == <<"f","e","a","t","u","r","e","/","t","e","s","t","-","b","r","a","n","c","h">>

\* the branch names of TestCreateBranchSlug
TestBranches ==
    { sMain,
      <<"f","e","a","t","u","r","e","/","n","e","w","-","f","e","a","t","u","r","e">>,
      <<"f","e","a","t","u","r","e","_","b","r","a","n","c","h">>,
      <<"f","e","a","t","u","r","e","/","J","I","R","A","-","1","2","3","_","u","p","d","a","t","e">>,
      <<"f","e","a","t","u","r","e","/","t","e","s","t","@","1","2","3">> }

\* the characters the enumerated branch names are built from
BranchChars == {"a", "Z", "9", "/", "_", "-", "@"}

RECURSIVE StringsUpTo(_, _)
StringsUpTo(A, n) ==
    IF n = 0 THEN {<<>>}
    ELSE LET S == StringsUpTo(A, n - 1)
         IN  S \cup {Append(s, a) : s \in {t \in S : Len(t) = n - 1}, a \in A}

\* the instants time.Now().UTC() can return, in order
Times == << [Y |-> 2025, Mo |-> 11, D |-> 25, h |-> 11, mi |-> 59, s |-> 3],
            [Y |-> 2026, Mo |-> 1,  D |-> 2,  h |-> 3,  mi |-> 4,  s |-> 5] >>

\* time.Format("20060102150405")
FormatTimestamp(t) ==
    Pad(t.Y, 4) \o Pad(t.Mo, 2) \o Pad(t.D, 2) \o Pad(t.h, 2) \o Pad(t.mi, 2) \o Pad(t.s, 2)

\* time.Format("2006-01-02T15:04:05Z")
FormatBuildTime(t) ==
    Pad(t.Y, 4) \o <<"-">> \o Pad(t.Mo, 2) \o <<"-">> \o Pad(t.D, 2) \o <<"T">> \o
    Pad(t.h, 2) \o <<":">> \o Pad(t.mi, 2) \o <<":">> \o Pad(t.s, 2) \o <<"Z">>

\* ------------------------------------------------------------- the filesystem
\* the directories are "/", "/d1", "/d1/d2", ... down to depth MaxDepth
RECURSIVE DirAt(_)
DirAt(k) == IF k = 0 THEN <<"/">>
            ELSE (IF k = 1 THEN <<>> ELSE DirAt(k - 1)) \o <<"/", "d", DigitChars[(k % 10) + 1]>>

Dirs == {DirAt(k) : k \in 0..MaxDepth}

\* what os.Stat(dir + "/.git") finds
MarkerKinds == {"none", "dir", "file", "other"}

\* ------------------------------------------------------------- repositories
\* object ids: commits are 1..n; TagObject is the id of an annotated tag's tag
\* object, which is no commit
TagObject == NumCommits + LinearLen + 1

StatusCodes == {"Unmodified", "Untracked", "Modified", "Added"}
FileStatus  == [Staging : StatusCodes, Worktree : StatusCodes]

\* worktree: repo.Worktree() succeeds; ok: worktree.Status() succeeds
CleanStatus    == [worktree |-> TRUE, ok |-> TRUE, files |-> {}]
ModifiedStatus == [worktree |-> TRUE, ok |-> TRUE,
                   files |-> {[Staging |-> "Unmodified", Worktree |-> "Modified"]}]

Linear(n) == [c \in 1..n |-> IF c = 1 THEN <<>> ELSE <<c - 1>>]

RECURSIVE Graphs(_)
\* histories of n commits with side branches and merges: every commit after the
\* first two has commit c-1, commit c-2 or both (in either order) as parents
Graphs(n) ==
    IF n = 1 THEN {<< <<>> >>}
    ELSE IF n = 2 THEN {<< <<>>, <<1>> >>}
    ELSE {Append(g, p) : g \in Graphs(n - 1),
                         p \in {<<n - 1>>, <<n - 2>>, <<n - 1, n - 2>>, <<n - 2, n - 1>>}}

\* the tag references v1.0.0 -> t1 and v2 -> t2 (0: the tag does not exist)
TagRefs(t1, t2) ==
    {[name |-> sTagV1, hash |-> t1] : x \in IF t1 = 0 THEN {} ELSE {1}} \cup
    {[name |-> sTagV2, hash |-> t2] : x \in IF t2 = 0 THEN {} ELSE {1}}

\* the orders in which tagRefs.ForEach can enumerate the references
Orders(S) ==
    {o \in [1..Cardinality(S) -> S] : \A i, j \in 1..Cardinality(S) : i # j => o[i] # o[j]}

\* a repository that cannot be opened (also the placeholder where there is none)
NoRepo ==
    [ok |-> FALSE, parents |-> Linear(1),
     head |-> [kind |-> "unborn", name |-> <<>>, hash |-> 0],
     tags |-> {}, tagOrder |-> <<>>, originHead |-> <<>>, branches |-> {},
     status |-> CleanStatus]

\* a clean repository on branch b at commit h of history g, no remote; tags are
\* the tag references and tagOrder the order in which its store enumerates them
RepoOn(g, h, b, tags) ==
    [ok |-> TRUE, parents |-> g,
     head |-> [kind |-> "branch", name |-> b, hash |-> h],
     tags |-> tags, tagOrder |-> CHOOSE o \in Orders(tags) : TRUE,
     originHead |-> <<>>, branches |-> {b}, status |-> CleanStatus]

\* ---------------------------------------------------------------- the state
VARIABLES
    marker,        \* directory -> what os.Stat finds at its ".git"
    repos,         \* directory -> the repository git.PlainOpen finds there
    args,          \* the calls of GetVersionInfo still to come: (path, defaultBranch)
    clock,         \* index into Times of the current instant
    pc,            \* position of the running call in GetVersionInfo
    call,          \* the arguments of the running call
    absPath,       \* GetVersionInfo: absPath
    origPath,      \* GetVersionInfo: origPath
    gitRoot,       \* GetVersionInfo: gitRoot
    defaultBranch, \* GetVersionInfo: defaultBranch
    info,          \* GetVersionInfo: *info
    tagMap,        \* getGitDescribe: tagMap
    stack,         \* getGitDescribe: the commit iterator's stack of parent lists
    seen,          \* getGitDescribe: the commit iterator's seen set
    distance,      \* getGitDescribe: distance
    results        \* what the finished calls returned, in order

env    == <<marker, repos>>
locate == <<absPath, origPath, gitRoot>>
walk   == <<tagMap, stack, seen, distance>>
vars   == <<marker, repos, args, clock, pc, call, absPath, origPath, gitRoot,
            defaultBranch, info, tagMap, stack, seen, distance, results>>

ZeroInfo ==
    [Version |-> <<>>, GitCommit |-> <<>>, GitCommitShort |-> <<>>, GitBranch |-> <<>>,
     GitBranchSlug |-> <<>>, GitDescribe |-> <<>>, LatestTag |-> <<>>, BuildTime |-> <<>>,
     IsDirty |-> FALSE, DefaultBranch |-> <<>>]

NoError == [kind |-> "none", path |-> <<>>]
NoCall  == [path |-> <<>>, defaultBranch |-> <<>>]
EmptyMap == [h \in {} |-> <<>>]

\* ------------------------------------------------------- the initial states
Call1(path, override) == << [path |-> path, defaultBranch |-> override] >>

\* a filesystem whose only repository is r, at /d1
OneRepo(r) ==
    [marker |-> [d \in Dirs |-> IF d = DirAt(1) THEN "dir" ELSE "none"],
     repos  |-> [d \in Dirs |-> IF d = DirAt(1) THEN r ELSE NoRepo]]

\* the environment of a run: the filesystem fs, the calls a, the clock at c
Start(fs, a, c) ==
    /\ marker = fs.marker
    /\ repos  = fs.repos
    /\ args   = a
    /\ clock  = c

\* branching histories with every placement of two tags, on and off the default branch
DescribeScenarios ==
    \E g \in Graphs(NumCommits), t1 \in 0..NumCommits \cup {TagObject},
       t2 \in 0..NumCommits, o \in {<<>>, sDev} :
        \E ord \in Orders(TagRefs(t1, t2)) :
            Start(OneRepo([RepoOn(g, NumCommits, sMain, TagRefs(t1, t2))
                              EXCEPT !.tagOrder = ord]),
                  Call1(DirAt(1), o), Len(Times))

\* linear histories with HEAD anywhere and every placement of two tags
LinearScenarios ==
    \E h \in 1..LinearLen, t1 \in 0..LinearLen, t2 \in 0..LinearLen :
        \E ord \in Orders(TagRefs(t1, t2)) :
            Start(OneRepo([RepoOn(Linear(LinearLen), h, sMain, TagRefs(t1, t2))
                              EXCEPT !.tagOrder = ord]),
                  Call1(DirAt(1), <<>>), Len(Times))

\* every state of HEAD, of the local branches, of origin/HEAD and of the override;
\* a checked-out branch is one of the local branches
BranchScenarios ==
    \E hd \in {[kind |-> "branch", name |-> b, hash |-> 2] : b \in {sMain, sMaster, sFeature}}
              \cup {[kind |-> "detached", name |-> sHEAD, hash |-> 2]},
       bs \in SUBSET {sMain, sMaster, sFeature},
       oh \in {<<>>, sOrigin \o sMain, sOrigin \o sFeature, sDev},
       o  \in {<<>>, sMain, sFeature, sHEAD},
       t1 \in 0..2,
       st \in {CleanStatus, ModifiedStatus} :
        /\ hd.kind = "branch" => hd.name \in bs
        /\ Start(OneRepo([ok |-> TRUE, parents |-> Linear(2), head |-> hd,
                          tags |-> TagRefs(t1, 0),
                          tagOrder |-> CHOOSE ord \in Orders(TagRefs(t1, 0)) : TRUE,
                          originHead |-> oh, branches |-> bs,
                          status |-> st]),
                 Call1(DirAt(1), o), Len(Times))

\* every short branch name, and the names of the slug tests
SlugScenarios ==
    \E b \in (StringsUpTo(BranchChars, MaxBranchLen) \ {<<>>}) \cup TestBranches :
        Start(OneRepo([RepoOn(Linear(2), 2, b, {}) EXCEPT !.branches = {b, sMain}]),
              Call1(DirAt(1), <<>>), Len(Times))

\* every working-tree status of at most MaxFiles entries, and the two failures
Statuses ==
    {[worktree |-> FALSE, ok |-> FALSE, files |-> {}],
     [worktree |-> TRUE,  ok |-> FALSE, files |-> {}]} \cup
    {[worktree |-> TRUE, ok |-> TRUE, files |-> F] :
        F \in {G \in SUBSET FileStatus : Cardinality(G) <= MaxFiles}}

StatusScenarios ==
    \E st \in Statuses, t1 \in {0, 2} :
        Start(OneRepo([RepoOn(Linear(2), 2, sMain, TagRefs(t1, 0)) EXCEPT !.status = st]),
              Call1(DirAt(1), <<>>), 1)

\* the repository found at depth k: the repositories of nested directories differ
RepoAt(k) ==
    [RepoOn(Linear(2), (k % 2) + 1,
            IF k % 3 = 0 THEN sMain ELSE IF k % 3 = 1 THEN sDev ELSE sMaster,
            TagRefs(1, 0))
        EXCEPT !.status = IF k % 2 = 0 THEN CleanStatus ELSE ModifiedStatus]

\* the depth of a directory: every component takes three characters
DepthOf(d) == Len(d) \div Len(DirAt(1))

\* at most two directories with a ".git" of any kind, and two calls from any two
\* directories
FsScenarios ==
    \E k \in [0..MaxDepth -> MarkerKinds], k1 \in 0..MaxDepth, k2 \in 0..MaxDepth :
        /\ Cardinality({d \in 0..MaxDepth : k[d] # "none"}) <= 2
        /\ Start([marker |-> [d \in Dirs |-> k[DepthOf(d)]],
                  repos  |-> [d \in Dirs |-> IF k[DepthOf(d)] \in {"dir", "file"}
                                             THEN RepoAt(DepthOf(d)) ELSE NoRepo]],
                 << [path |-> DirAt(k1), defaultBranch |-> <<>>],
                    [path |-> DirAt(k2), defaultBranch |-> <<>>] >>,
                 Len(Times))

\* two repositories with the same history, HEAD commit and tag references, one
\* nested in the other, whose stores enumerate the tag references in any two
\* orders; the inner one may be on another branch or detached and have a
\* modified working tree; one call from each, the inner one with any override
TwinScenarios ==
    \E h \in 1..2, t1 \in 0..2, t2 \in 0..2,
       hd \in {[kind |-> "branch", name |-> b] : b \in {sMain, sDev}}
              \cup {[kind |-> "detached", name |-> sHEAD]},
       st \in {CleanStatus, ModifiedStatus}, o \in {<<>>, sDev} :
        \E ord1 \in Orders(TagRefs(t1, t2)), ord2 \in Orders(TagRefs(t1, t2)) :
            LET r == [RepoOn(Linear(2), h, sMain, TagRefs(t1, t2))
                         EXCEPT !.branches = {sMain, sDev}]
            IN  Start([marker |-> [d \in Dirs |-> IF DepthOf(d) \in {1, 2} THEN "dir"
                                                  ELSE "none"],
                       repos  |-> [d \in Dirs |->
                                     IF DepthOf(d) = 1 THEN [r EXCEPT !.tagOrder = ord1]
                                     ELSE IF DepthOf(d) = 2
                                     THEN [r EXCEPT !.tagOrder = ord2,
                                                    !.head.kind = hd.kind,
                                                    !.head.name = hd.name,
                                                    !.status = st]
                                     ELSE NoRepo]],
                      << [path |-> DirAt(1), defaultBranch |-> <<>>],
                         [path |-> DirAt(2), defaultBranch |-> o] >>,
                      Len(Times))

\* a repository that cannot be opened, and one without a commit, with and
\* without a tag reference, an override and a modified working tree
ErrorScenarios ==
    \E tg \in {{}, TagRefs(1, 0)}, st \in {CleanStatus, ModifiedStatus} :
        \E r \in {[RepoOn(Linear(1), 1, sMain, tg) EXCEPT !.ok = FALSE, !.status = st],
                  [RepoOn(Linear(1), 0, sMain, tg) EXCEPT !.head.kind = "unborn",
                                                          !.branches = {},
                                                          !.status = st]},
           d \in Dirs, o \in {<<>>, sMain} :
            Start(OneRepo(r), Call1(d, o), Len(Times))

Init ==
    /\ \/ DescribeScenarios
       \/ LinearScenarios
       \/ BranchScenarios
       \/ SlugScenarios
       \/ StatusScenarios
       \/ FsScenarios
       \/ TwinScenarios
       \/ ErrorScenarios
    /\ pc = "idle"
    /\ call = NoCall
    /\ absPath = <<>> /\ origPath = <<>> /\ gitRoot = <<>>
    /\ defaultBranch = <<>>
    /\ info = ZeroInfo
    /\ tagMap = EmptyMap /\ stack = <<>> /\ seen = {} /\ distance = 0
    /\ results = <<>>

\* ------------------------------------------------------ GetVersionInfo: locate
\* os.Stat(gitDir): the kind of file found at the path, "none" on an error
Stat(gitDir) ==
    LET D == {d \in Dirs : d \o sGit = gitDir}
    IN  IF D = {} THEN "none" ELSE marker[CHOOSE d \in D : TRUE]

\* mutant: a ".git" that is a regular file is not accepted
IsGitMarker_DirOnly(kind) == kind = "dir"

\* err == nil && (fi.IsDir() || fi.Mode().IsRegular())
IsGitMarker(kind) == kind \in {"dir", "file"}

Return(err, hasInfo, i) ==
    /\ results' = Append(results, [call |-> call, err |-> err, hasInfo |-> hasInfo, info |-> i])
    /\ pc' = "idle"

\* a call of GetVersionInfo(repoPath, defaultBranch); repoPath is absolute and clean,
\* so filepath.Abs returns it unchanged
Call ==
    /\ pc = "idle"
    /\ args # <<>>
    /\ call' = Head(args)
    /\ args' = Tail(args)
    /\ absPath' = Head(args).path
    /\ origPath' = Head(args).path
    /\ gitRoot' = <<>>
    /\ defaultBranch' = Head(args).defaultBranch
    /\ info' = ZeroInfo
    /\ tagMap' = EmptyMap /\ stack' = <<>> /\ seen' = {} /\ distance' = 0
    /\ pc' = "locate"
    /\ UNCHANGED <<env, clock, results>>

\* the loop body when ".git" is found at the candidate
LocateFound ==
    /\ pc = "locate"
    /\ IsGitMarker(Stat(absPath \o sGit))
    /\ gitRoot' = absPath
    /\ pc' = "open"
    /\ UNCHANGED <<env, args, clock, call, absPath, origPath, defaultBranch, info, walk, results>>

\* the loop body when the candidate has a parent to try
LocateUp ==
    /\ pc = "locate"
    /\ ~IsGitMarker(Stat(absPath \o sGit))
    /\ parentDir(absPath) # absPath
    /\ absPath' = parentDir(absPath)
    /\ UNCHANGED <<env, args, clock, pc, call, origPath, gitRoot, defaultBranch, info, walk,
                   results>>

\* the loop body at the filesystem root
LocateFail ==
    /\ pc = "locate"
    /\ ~IsGitMarker(Stat(absPath \o sGit))
    /\ parentDir(absPath) = absPath
    /\ Return([kind |-> "not_found", path |-> origPath], FALSE, ZeroInfo)
    /\ UNCHANGED <<env, args, clock, call, locate, defaultBranch, info, walk>>

\* -------------------------------------------------------- GetVersionInfo: open
\* the repository git.PlainOpen(gitRoot) opens
Repo == repos[gitRoot]

\* git.PlainOpen succeeds; info is created with the build time
OpenOk ==
    /\ pc = "open"
    /\ Repo.ok
    /\ \E t \in clock..Len(Times) :
          /\ clock' = t
          /\ info' = [info EXCEPT !.BuildTime = FormatBuildTime(Times[t])]
    /\ pc' = "default"
    /\ UNCHANGED <<env, args, call, locate, defaultBranch, walk, results>>

\* git.PlainOpen fails
OpenFail ==
    /\ pc = "open"
    /\ ~Repo.ok
    /\ Return([kind |-> "open", path |-> gitRoot], FALSE, ZeroInfo)
    /\ UNCHANGED <<env, args, clock, call, locate, defaultBranch, info, walk>>

\* ------------------------------------------------------- detectDefaultBranch
RECURSIVE FirstExisting(_, _)
\* for _, branch := range branches { if existingBranches[branch] { return branch } }
FirstExisting(candidates, existing) ==
    IF candidates = <<>> THEN <<>>
    ELSE IF Head(candidates) \in existing THEN Head(candidates)
    ELSE FirstExisting(Tail(candidates), existing)

\* mutant: master is preferred over main
detectDefaultBranch_MasterFirst(repo) ==
    IF repo.originHead # <<>>
    THEN IF HasPrefix(repo.originHead, sOrigin)
         THEN TrimPrefix(repo.originHead, sOrigin)
         ELSE repo.originHead
    ELSE LET found == FirstExisting(<<sMaster, sMain>>, repo.branches)
         IN  IF found # <<>> THEN found ELSE sMain

\* repo.originHead is ref.Name().Short() of the resolved origin/HEAD, <<>> when
\* repo.Reference fails
detectDefaultBranch(repo) ==
    IF repo.originHead # <<>>
    THEN IF HasPrefix(repo.originHead, sOrigin)
         THEN TrimPrefix(repo.originHead, sOrigin)
         ELSE repo.originHead
    ELSE LET found == FirstExisting(<<sMain, sMaster>>, repo.branches)
         IN  IF found # <<>> THEN found ELSE sMain

\* if defaultBranch == "" { defaultBranch = detectDefaultBranch(repo) }
DetectDefault ==
    /\ pc = "default"
    /\ LET db == IF defaultBranch = <<>> THEN detectDefaultBranch(Repo) ELSE defaultBranch
       IN  /\ defaultBranch' = db
           /\ info' = [info EXCEPT !.DefaultBranch = db]
    /\ pc' = "head"
    /\ UNCHANGED <<env, args, clock, call, locate, walk, results>>

\* -------------------------------------------------------- GetVersionInfo: HEAD
\* head.Name().IsBranch(): HEAD is a symbolic reference to a branch
BranchOf(head) == IF head.kind = "branch" THEN head.name ELSE sHEAD

\* repo.Head() succeeds: commit, short commit, branch and slug
HeadOk ==
    /\ pc = "head"
    /\ Repo.head.kind # "unborn"
    /\ info' = [info EXCEPT
                  !.GitCommit      = HashString(Repo.head.hash),
                  !.GitCommitShort = SubSeq(HashString(Repo.head.hash), 1, ShortLen),
                  !.GitBranch      = BranchOf(Repo.head),
                  !.GitBranchSlug  = createBranchSlug(BranchOf(Repo.head))]
    /\ pc' = "tags"
    /\ UNCHANGED <<env, args, clock, call, locate, defaultBranch, walk, results>>

\* mutant: the record filled so far is returned beside the error
HeadFail_ReturnsPartial ==
    /\ pc = "head"
    /\ Repo.head.kind = "unborn"
    /\ Return([kind |-> "head", path |-> gitRoot], TRUE, info)
    /\ UNCHANGED <<env, args, clock, call, locate, defaultBranch, info, walk>>

\* repo.Head() fails: the repository has no commit
HeadFail ==
    /\ pc = "head"
    /\ Repo.head.kind = "unborn"
    /\ Return([kind |-> "head", path |-> gitRoot], FALSE, ZeroInfo)
    /\ UNCHANGED <<env, args, clock, call, locate, defaultBranch, info, walk>>

\* ------------------------------------------------------------- getGitDescribe
\* repo.Tags(), repo.Log() and the iteration read a repository that has been
\* opened and whose HEAD has been resolved; their error returns (lines 219-221,
\* 228-230, 241-243) need an unreadable reference or object store, which is not
\* among the repository states modelled here, and neither is the failure of
\* repo.References() in detectDefaultBranch (line 151).  A tag reference's hash
\* is the commit for a lightweight tag and the tag object for an annotated one:
\* line 225 uses it as it is.  The order in which tagRefs.ForEach enumerates
\* the references is the repository store's (tagOrder): it stays the same while
\* the repository is unchanged, and no order is promised.
RECURSIVE FillTagMap(_, _)
\* tagMap[ref.Hash()] = ref.Name().Short(), reference after reference
FillTagMap(m, order) ==
    IF order = <<>> THEN m
    ELSE LET ref == Head(order)
         IN  FillTagMap([h \in DOMAIN m \cup {ref.hash} |->
                            IF h = ref.hash THEN ref.name ELSE m[h]],
                        Tail(order))

\* tagName, exists := tagMap[hash]
IsTagged(m, h) == h \in DOMAIN m

BuildTagMap ==
    /\ pc = "tags"
    /\ tagMap' = FillTagMap(EmptyMap, Repo.tagOrder)
    /\ pc' = "describe"
    /\ UNCHANGED <<env, args, clock, call, locate, defaultBranch, info, stack, seen, distance,
                   results>>

\* mutant: an exact tag is reported as describe only
ExactTag_DescribeOnly ==
    /\ pc = "describe"
    /\ IsTagged(tagMap, Repo.head.hash)
    /\ info' = [info EXCEPT !.GitDescribe = tagMap[Repo.head.hash]]
    /\ pc' = "dirty"
    /\ UNCHANGED <<env, args, clock, call, locate, defaultBranch, walk, results>>

\* the current commit is exactly at a tag
ExactTag ==
    /\ pc = "describe"
    /\ IsTagged(tagMap, Repo.head.hash)
    /\ info' = [info EXCEPT !.GitDescribe = tagMap[Repo.head.hash],
                            !.LatestTag   = tagMap[Repo.head.hash]]
    /\ pc' = "dirty"
    /\ UNCHANGED <<env, args, clock, call, locate, defaultBranch, walk, results>>

\* mutant: the history is walked without the check for an exact tag
StartWalk_Unguarded ==
    /\ pc = "describe"
    /\ stack' = << <<Repo.head.hash>> >>
    /\ seen' = {}
    /\ distance' = 0
    /\ pc' = "walk"
    /\ UNCHANGED <<env, args, clock, call, locate, defaultBranch, info, tagMap, results>>

\* repo.Log(&git.LogOptions{From: hash}): the iterator starts at the commit
StartWalk ==
    /\ pc = "describe"
    /\ ~IsTagged(tagMap, Repo.head.hash)
    /\ stack' = << <<Repo.head.hash>> >>
    /\ seen' = {}
    /\ distance' = 0
    /\ pc' = "walk"
    /\ UNCHANGED <<env, args, clock, call, locate, defaultBranch, info, tagMap, results>>

\* mutant: only the first parent of a commit is followed
ParentsToVisit_FirstOnly(g, c, sn) ==
    SelectSeq(SubSeq(g[c], 1, 1), LAMBDA h : h \notin sn)

\* the parents the iterator pushes for a commit: those not seen yet, in order
ParentsToVisit(g, c, sn) == SelectSeq(g[c], LAMBDA h : h \notin sn)

RECURSIVE NextCommit(_, _, _)
\* commitIter's Next(): pre-order, depth first, every commit once
NextCommit(g, st, sn) ==
    IF st = <<>> THEN [eof |-> TRUE, commit |-> 0, stack |-> st, seen |-> sn]
    ELSE LET top == st[Len(st)]
         IN  IF top = <<>> THEN NextCommit(g, SubSeq(st, 1, Len(st) - 1), sn)
             ELSE LET c   == Head(top)
                      st1 == [st EXCEPT ![Len(st)] = Tail(top)]
                  IN  IF c \in sn THEN NextCommit(g, st1, sn)
                      ELSE LET sn1 == sn \cup {c}
                           IN  [eof |-> FALSE, commit |-> c,
                                stack |-> IF Len(g[c]) > 0
                                          THEN Append(st1, ParentsToVisit(g, c, sn1))
                                          ELSE st1,
                                seen |-> sn1]

\* mutant: the tagged commit is counted too
FormatDescribe_CountsTag(tag, d, shortHash) ==
    tag \o <<"-">> \o Dec(d + 1) \o <<"-", "g">> \o shortHash

\* fmt.Sprintf("%s-%d-g%s", foundTag, distance, shortHash)
FormatDescribe(tag, d, shortHash) ==
    tag \o <<"-">> \o Dec(d) \o <<"-", "g">> \o shortHash

\* mutant: the commit the walk starts at is not counted
WalkVisit_SkipsHead ==
    /\ pc = "walk"
    /\ LET n == NextCommit(Repo.parents, stack, seen)
       IN  /\ ~n.eof
           /\ ~IsTagged(tagMap, n.commit)
           /\ stack' = n.stack
           /\ seen' = n.seen
           /\ distance' = IF n.commit = Repo.head.hash THEN distance ELSE distance + 1
    /\ UNCHANGED <<env, args, clock, pc, call, locate, defaultBranch, info, tagMap, results>>

\* the callback on a commit without a tag: distance++
WalkVisit ==
    /\ pc = "walk"
    /\ LET n == NextCommit(Repo.parents, stack, seen)
       IN  /\ ~n.eof
           /\ ~IsTagged(tagMap, n.commit)
           /\ stack' = n.stack
           /\ seen' = n.seen
           /\ distance' = distance + 1
    /\ UNCHANGED <<env, args, clock, pc, call, locate, defaultBranch, info, tagMap, results>>

\* the callback on a commit with a tag stops the iteration; the describe is formatted
WalkFound ==
    /\ pc = "walk"
    /\ LET n == NextCommit(Repo.parents, stack, seen)
       IN  /\ ~n.eof
           /\ IsTagged(tagMap, n.commit)
           /\ stack' = n.stack
           /\ seen' = n.seen
           /\ LET foundTag  == tagMap[n.commit]
                  shortHash == SubSeq(HashString(Repo.head.hash), 1, ShortLen)
              IN  info' = IF foundTag # <<>>
                          THEN [info EXCEPT
                                  !.GitDescribe = FormatDescribe(foundTag, distance, shortHash),
                                  !.LatestTag   = foundTag]
                          ELSE info
    /\ pc' = "dirty"
    /\ UNCHANGED <<env, args, clock, call, locate, defaultBranch, tagMap, distance, results>>

\* the history is exhausted without a tag: both results are empty
WalkExhausted ==
    /\ pc = "walk"
    /\ NextCommit(Repo.parents, stack, seen).eof
    /\ stack' = <<>>
    /\ pc' = "dirty"
    /\ UNCHANGED <<env, args, clock, call, locate, defaultBranch, info, tagMap, seen, distance,
                   results>>

\* ------------------------------------------------------ hasUncommittedChanges
\* mutant: an untracked file counts as a change
IsChange_CountsUntracked(code) == code # "Unmodified"

\* fileStatus.X != git.Untracked && fileStatus.X != git.Unmodified
IsChange(code) == code # "Untracked" /\ code # "Unmodified"

hasUncommittedChanges(repo) ==
    IF ~repo.status.worktree THEN FALSE
    ELSE IF ~repo.status.ok THEN FALSE
    ELSE \E f \in repo.status.files : IsChange(f.Staging) \/ IsChange(f.Worktree)

CheckDirty ==
    /\ pc = "dirty"
    /\ info' = [info EXCEPT !.IsDirty = hasUncommittedChanges(Repo)]
    /\ pc' = "compose"
    /\ UNCHANGED <<env, args, clock, call, locate, defaultBranch, walk, results>>

\* ----------------------------------------------------- GetVersionInfo: version
\* fmt.Sprintf("%s-g%s", info.GitBranchSlug, info.GitCommitShort)
SlugVersion(i) == i.GitBranchSlug \o <<"-", "g">> \o i.GitCommitShort

\* mutant: the describe is used on every branch
BaseVersion_AnyBranch(i, db) ==
    IF i.GitDescribe # <<>> THEN i.GitDescribe ELSE SlugVersion(i)

\* mutant: the describe is never used
BaseVersion_NoDescribe(i, db) == SlugVersion(i)

\* the version determined from branch and tags
BaseVersion(i, db) ==
    IF i.GitBranch = db
    THEN IF i.GitDescribe # <<>> THEN i.GitDescribe ELSE SlugVersion(i)
    ELSE SlugVersion(i)

ComposeBase ==
    /\ pc = "compose"
    /\ info' = [info EXCEPT !.Version = BaseVersion(info, defaultBranch)]
    /\ pc' = "suffix"
    /\ UNCHANGED <<env, args, clock, call, locate, defaultBranch, walk, results>>

\* mutant: the timestamp is appended without the separator
WithTimestamp_NoSeparator(v, t) == v \o FormatTimestamp(t)

\* fmt.Sprintf("%s-%s", info.Version, timestamp)
WithTimestamp(v, t) == v \o <<"-">> \o FormatTimestamp(t)

\* a dirty tree gets the timestamp suffix; info is returned
FinishDirty ==
    /\ pc = "suffix"
    /\ info.IsDirty
    /\ \E t \in clock..Len(Times) :
          /\ clock' = t
          /\ info' = [info EXCEPT !.Version = WithTimestamp(info.Version, Times[t])]
    /\ Return(NoError, TRUE, info')
    /\ UNCHANGED <<env, args, call, locate, defaultBranch, walk>>

\* a clean tree: info is returned as it is
FinishClean ==
    /\ pc = "suffix"
    /\ ~info.IsDirty
    /\ Return(NoError, TRUE, info)
    /\ UNCHANGED <<env, args, clock, call, locate, defaultBranch, info, walk>>

Next ==
    \/ Call
    \/ LocateFound \/ LocateUp \/ LocateFail
    \/ OpenOk \/ OpenFail
    \/ DetectDefault
    \/ HeadOk \/ HeadFail
    \/ BuildTagMap
    \/ ExactTag \/ StartWalk \/ WalkVisit \/ WalkFound \/ WalkExhausted
    \/ CheckDirty
    \/ ComposeBase
    \/ FinishDirty \/ FinishClean

Spec == Init /\ [][Next]_vars

\* GetVersionInfo is sequential code: a call that has started keeps running
\* until it returns
FairSpec == Spec /\ WF_vars(Next)

\* ======================================================================
\* Properties
\* ======================================================================
Last == results[Len(results)]

\* the last call has returned a VersionInfo and no other call has started
Returned == pc = "idle" /\ results # <<>> /\ Last.hasInfo

\* the base version has been determined (and, until the return, is info.Version)
BaseKnown == pc = "suffix"

\* "{branchSlug}-g{commitShort}" of a VersionInfo
SlugForm(i) == i.GitBranchSlug \o <<"-", "g">> \o i.GitCommitShort

\* the tag references that point at commit c
RefsAt(c) == {ref \in Repo.tags : ref.hash = c}

\* C1: on a branch other than the default branch (a detached HEAD included) the
\* base version is "{branchSlug}-g{commitShort}" whatever the tags are, and so is
\* the returned version of a clean tree; a dirty tree's version starts with it.
C1_OffDefaultIgnoresTags ==
    /\ (BaseKnown /\ info.GitBranch # defaultBranch) => info.Version = SlugForm(info)
    /\ \A k \in 1..Len(results) :
          LET r == results[k]
          IN  (r.hasInfo /\ r.info.GitBranch # r.info.DefaultBranch) =>
                 IF r.info.IsDirty
                 THEN HasPrefix(r.info.Version, SlugForm(r.info) \o <<"-">>)
                 ELSE r.info.Version = SlugForm(r.info)

\* C1 witness: off the default branch with HEAD exactly at tag v1.0.0
C1_Witness ==
    /\ BaseKnown
    /\ info.GitBranch # defaultBranch
    /\ RefsAt(Repo.head.hash) # {}
    /\ info.GitDescribe = sTagV1
    /\ info.Version = SlugForm(info)

\* C2: on the default branch the base version is describe when describe is not
\* empty and "{branchSlug}-g{commitShort}" when it is; a clean tree with HEAD
\* exactly at a tag returns that tag's name as version.
C2_DefaultUsesDescribe ==
    /\ (BaseKnown /\ info.GitBranch = defaultBranch) =>
          /\ info.GitDescribe # <<>> => info.Version = info.GitDescribe
          /\ info.GitDescribe = <<>> => info.Version = SlugForm(info)
    /\ (Returned /\ Last.info.GitBranch = Last.info.DefaultBranch /\ ~Last.info.IsDirty
          /\ RefsAt(Repo.head.hash) # {}) =>
          Last.info.Version \in {ref.name : ref \in RefsAt(Repo.head.hash)}

\* C2 witness: the default branch, clean, HEAD exactly at v1.0.0, version v1.0.0
C2_Witness ==
    /\ Returned
    /\ Last.info.GitBranch = Last.info.DefaultBranch
    /\ ~Last.info.IsDirty
    /\ RefsAt(Repo.head.hash) # {}
    /\ Last.info.Version = sTagV1

RECURSIVE DecValue(_)
\* the number a string of decimal digits denotes
DecValue(s) ==
    IF s = <<>> THEN 0
    ELSE 10 * DecValue(SubSeq(s, 1, Len(s) - 1))
         + (CHOOSE d \in 0..9 : DigitChars[d + 1] = s[Len(s)])

\* ts is the 14-digit rendering YYYYMMDDHHMMSS of instant t
IsTimestampOf(ts, t) ==
    /\ Len(ts) = TimestampLen
    /\ \A i \in 1..Len(ts) : ts[i] \in Digit
    /\ DecValue(SubSeq(ts, 1, 4))   = t.Y
    /\ DecValue(SubSeq(ts, 5, 6))   = t.Mo
    /\ DecValue(SubSeq(ts, 7, 8))   = t.D
    /\ DecValue(SubSeq(ts, 9, 10))  = t.h
    /\ DecValue(SubSeq(ts, 11, 12)) = t.mi
    /\ DecValue(SubSeq(ts, 13, 14)) = t.s

\* the part of a version after its last "-"
LastSegment(v) == SubSeq(v, LastIndex(v, "-") + 2, Len(v))

\* C3: the returned version of a dirty tree is the base version, one "-" and the
\* 14 digits of the current UTC time, which are its last segment; the returned
\* version of a clean tree is the base version.
C3_TimestampSuffix ==
    [][(pc = "suffix" /\ pc' = "idle") =>
          LET base == info.Version
              v    == results'[Len(results')].info.Version
          IN  /\ results'[Len(results')].info.IsDirty = info.IsDirty
              /\ IF info.IsDirty
                 THEN /\ Len(v) = Len(base) + 1 + TimestampLen
                      /\ SubSeq(v, 1, Len(base)) = base
                      /\ v[Len(base) + 1] = "-"
                      /\ IsTimestampOf(SubSeq(v, Len(base) + 2, Len(v)), Times[clock'])
                      /\ LastSegment(v) = SubSeq(v, Len(base) + 2, Len(v))
                 ELSE v = base]_vars

\* C3 witness: a dirty tree at tag v1.0.0 on the default branch returned
\* "v1.0.0-" and 14 digits
C3_Witness ==
    /\ Returned
    /\ Last.info.IsDirty
    /\ Last.info.GitDescribe = sTagV1
    /\ Len(Last.info.Version) = Len(sTagV1) + 1 + TimestampLen
    /\ HasPrefix(Last.info.Version, sTagV1 \o <<"-">>)
    /\ \A i \in 1..TimestampLen : LastSegment(Last.info.Version)[i] \in Digit

RECURSIVE SlugSpec(_)
\* the slug character by character: "/" and "_" become "-", letters, digits and
\* "-" stay, every other character is dropped
SlugSpec(b) ==
    IF b = <<>> THEN <<>>
    ELSE (IF Head(b) \in {"/", "_"} THEN <<"-">>
          ELSE IF Head(b) \in Lower \cup Upper \cup Digit \cup {"-"} THEN <<Head(b)>>
          ELSE <<>>) \o SlugSpec(Tail(b))

\* C4: the slug of a branch name is the name with "/" and "_" replaced by "-" and
\* every character outside [A-Za-z0-9-] deleted, the rest in order; it contains
\* only characters of [A-Za-z0-9-].
C4_SlugSanitized ==
    info.GitBranch # <<>> =>
        /\ info.GitBranchSlug = SlugSpec(info.GitBranch)
        /\ \A i \in 1..Len(info.GitBranchSlug) :
              info.GitBranchSlug[i] \in Lower \cup Upper \cup Digit \cup {"-"}

\* C4 witness: "feature/test@123" gives "feature-test123"
C4_Witness ==
    /\ Returned
    /\ Last.info.GitBranch =
          <<"f","e","a","t","u","r","e","/","t","e","s","t","@","1","2","3">>
    /\ Last.info.GitBranchSlug =
          <<"f","e","a","t","u","r","e","-","t","e","s","t","1","2","3">>

\* getGitDescribe has returned for the running (or the last, returned) call
Described == pc \in {"dirty", "compose", "suffix"} \/ Returned

Head7 == SubSeq(HashString(Repo.head.hash), 1, ShortLen)

\* C5: when HEAD is a key of the tag mapping, describe and latestTag are the tag
\* name and no ancestry is walked; a describe that comes from the walk has a
\* distance of at least 1, so "tag-0-g{hash}" is never produced.
C5_ExactTagNoWalk ==
    Described =>
        /\ Repo.head.hash \in DOMAIN tagMap =>
              /\ info.GitDescribe = tagMap[Repo.head.hash]
              /\ info.LatestTag = tagMap[Repo.head.hash]
              /\ seen = {} /\ stack = <<>> /\ distance = 0
        /\ (seen # {} /\ info.GitDescribe # <<>>) =>
              /\ distance >= 1
              /\ info.GitDescribe # info.LatestTag
        /\ ~HasPrefix(info.GitDescribe, info.LatestTag \o <<"-", "0", "-", "g">>)

\* C5 witness: HEAD is at tag v1.0.0 while another tag sits on an ancestor
C5_Witness ==
    /\ Returned
    /\ Repo.head.hash \in DOMAIN tagMap
    /\ \E c \in DOMAIN tagMap : c # Repo.head.hash /\ c \in 1..Len(Repo.parents)
    /\ info.GitDescribe = sTagV1
    /\ info.LatestTag = sTagV1
    /\ seen = {}

RECURSIVE Ancestor(_, _, _)
\* the k-th first-parent ancestor of c in history g (0 when there is none)
Ancestor(g, c, k) ==
    IF k = 0 THEN c
    ELSE IF c = 0 \/ g[c] = <<>> THEN 0
    ELSE Ancestor(g, g[c][1], k - 1)

RECURSIVE ReachableFrom(_, _)
\* the commits reachable from the commits of F through the parent links of g
ReachableFrom(g, F) ==
    LET N == F \cup UNION {{g[c][i] : i \in 1..Len(g[c])} : c \in F}
    IN  IF N = F THEN F ELSE ReachableFrom(g, N)

\* the history of HEAD is linear: no commit reachable from HEAD is a merge
LinearFromHead ==
    \A c \in ReachableFrom(Repo.parents, {Repo.head.hash}) : Len(Repo.parents[c]) <= 1

\* d is "{T}-{n}-g{short}" for a decimal rendering of n without a leading zero
IsDescribeOf(d, T, n, short) ==
    LET ds == SubSeq(d, Len(T) + 2, Len(d) - Len(short) - 2)
    IN  /\ Len(d) > Len(T) + Len(short) + 3
        /\ SubSeq(d, 1, Len(T) + 1) = T \o <<"-">>
        /\ SubSeq(d, Len(d) - Len(short) - 1, Len(d)) = <<"-", "g">> \o short
        /\ \A i \in 1..Len(ds) : ds[i] \in Digit
        /\ ds[1] # "0"
        /\ DecValue(ds) = n

\* C6: on a linear history where the n-th ancestor of HEAD (n > 0) carries a tag
\* and no commit nearer to HEAD does, latestTag is a tag T of that commit and
\* describe is "{T}-{n}-g{commitShort}", seven hex digits of HEAD's id; on the
\* default branch with a clean tree that describe is the version.
C6_DistanceOnLinearHistory ==
    (Described /\ LinearFromHead) =>
        \A n \in 1..Len(Repo.parents) :
            LET a == Ancestor(Repo.parents, Repo.head.hash, n)
            IN  (/\ a # 0
                 /\ RefsAt(a) # {}
                 /\ \A k \in 0..(n - 1) : RefsAt(Ancestor(Repo.parents, Repo.head.hash, k)) = {})
                => /\ info.LatestTag \in {ref.name : ref \in RefsAt(a)}
                   /\ Len(info.GitCommitShort) = ShortLen
                   /\ \A i \in 1..Len(info.GitCommitShort) : info.GitCommitShort[i] \in HexDigit
                   /\ HasPrefix(info.GitCommit, info.GitCommitShort)
                   /\ IsDescribeOf(info.GitDescribe, info.LatestTag, n, info.GitCommitShort)
                   /\ (Returned /\ info.GitBranch = info.DefaultBranch /\ ~info.IsDirty)
                         => info.Version = info.GitDescribe

\* C6 witness: HEAD five commits past v1.0.0 on the default branch, clean:
\* the version is "v1.0.0-5-g" and seven hex digits
C6_Witness ==
    /\ Returned
    /\ LinearFromHead
    /\ RefsAt(Ancestor(Repo.parents, Repo.head.hash, 5)) = {[name |-> sTagV1, hash |-> 1]}
    /\ info.GitBranch = info.DefaultBranch
    /\ ~info.IsDirty
    /\ info.LatestTag = sTagV1
    /\ info.Version = sTagV1 \o <<"-", "5", "-", "g">> \o info.GitCommitShort
    /\ Len(info.GitCommitShort) = 7

\* some tag reference points at a commit reachable from HEAD
TagReachable ==
    \E ref \in Repo.tags : ref.hash \in ReachableFrom(Repo.parents, {Repo.head.hash})

FirstParentChain(g, c) == {Ancestor(g, c, k) : k \in 0..Len(g)} \ {0}

IsAncestorDir(d, p) == d = p \/ d = <<"/">> \/ HasPrefix(p, d \o <<"/">>)

\* the directories at or above p that contain a ".git" directory or regular file
MarkedAncestors(p) ==
    {d \in Dirs : IsAncestorDir(d, p) /\ marker[d] \in {"dir", "file"}}

Nearest(p) ==
    CHOOSE d \in MarkedAncestors(p) : \A e \in MarkedAncestors(p) : Len(e) <= Len(d)

\* a version without its timestamp suffix
Untimed(i) ==
    IF i.IsDirty THEN SubSeq(i.Version, 1, Len(i.Version) - TimestampLen) ELSE i.Version

\* C8: the located root is the nearest directory at or above the start path that
\* contains the marker; a call from a path whose nearest such directory is R
\* returns the commit, branch, describe and version (up to the instant of the
\* timestamp) of a call from R itself.
C8_NearestRootSameResult ==
    /\ pc \notin {"idle", "locate"} =>
          (MarkedAncestors(origPath) # {} /\ gitRoot = Nearest(origPath))
    /\ \A i, j \in 1..Len(results) :
          LET r == results[i]
              q == results[j]
          IN  (/\ marker[r.call.path] \in {"dir", "file"}
               /\ MarkedAncestors(q.call.path) # {}
               /\ Nearest(q.call.path) = r.call.path
               /\ q.call.defaultBranch = r.call.defaultBranch)
              => /\ q.hasInfo = r.hasInfo
                 /\ q.err.kind = r.err.kind
                 /\ q.info.GitCommit = r.info.GitCommit
                 /\ q.info.GitBranch = r.info.GitBranch
                 /\ q.info.GitBranchSlug = r.info.GitBranchSlug
                 /\ q.info.GitDescribe = r.info.GitDescribe
                 /\ q.info.LatestTag = r.info.LatestTag
                 /\ q.info.DefaultBranch = r.info.DefaultBranch
                 /\ q.info.IsDirty = r.info.IsDirty
                 /\ Untimed(q.info) = Untimed(r.info)

\* C8 witness: a repository nested in another; the call from two levels below
\* the inner root returned what the call from the inner root returned
C8_Witness ==
    /\ Len(results) = 2
    /\ marker[DirAt(0)] = "dir"
    /\ marker[DirAt(1)] = "file"
    /\ results[1].call.path = DirAt(1)
    /\ results[2].call.path = DirAt(3)
    /\ results[1].hasInfo /\ results[2].hasInfo
    /\ results[2].info.GitCommit = HashString(repos[DirAt(1)].head.hash)
    /\ results[2].info.Version = results[1].info.Version

\* the running call has its default branch
DefaultKnown == pc \in {"head", "tags", "describe", "walk", "dirty", "compose", "suffix"}
                \/ Returned

\* the remote prefix "origin/" stripped from a reference name
WithoutRemote(n) ==
    IF Len(n) >= Len(sOrigin) /\ \A i \in 1..Len(sOrigin) : n[i] = sOrigin[i]
    THEN [i \in 1..(Len(n) - Len(sOrigin)) |-> n[i + Len(sOrigin)]]
    ELSE n

\* C9: the default branch is the override when there is one; else the branch
\* origin/HEAD names, remote prefix stripped; else "main" if that local branch
\* exists; else "master" if that one exists; else "main". It is never empty.
C9_DefaultBranchOrder ==
    DefaultKnown =>
        /\ info.DefaultBranch = defaultBranch
        /\ info.DefaultBranch # <<>>
        /\ info.DefaultBranch =
              IF call.defaultBranch # <<>> THEN call.defaultBranch
              ELSE IF Repo.originHead # <<>> THEN WithoutRemote(Repo.originHead)
              ELSE IF sMain \in Repo.branches THEN sMain
              ELSE IF sMaster \in Repo.branches THEN sMaster
              ELSE sMain

\* C9 witness: no override, no origin/HEAD, local branches main and master, on
\* master: the default branch is main
C9_Witness ==
    /\ Returned
    /\ call.defaultBranch = <<>>
    /\ Repo.originHead = <<>>
    /\ {sMain, sMaster} \subseteq Repo.branches
    /\ info.GitBranch = sMaster
    /\ info.DefaultBranch = sMain

\* hasUncommittedChanges has returned for the running (or the last) call
DirtyKnown == pc \in {"compose", "suffix"} \/ Returned

\* C10: dirty holds exactly when the status can be computed and some file's
\* staging or worktree state is neither Unmodified nor Untracked; when the status
\* cannot be computed dirty is false and the call still returns a VersionInfo
\* without an error.
C10_DirtyIgnoresUntracked ==
    /\ DirtyKnown =>
          (info.IsDirty <=>
              /\ Repo.status.worktree
              /\ Repo.status.ok
              /\ \E f \in Repo.status.files :
                    \/ f.Staging \notin {"Unmodified", "Untracked"}
                    \/ f.Worktree \notin {"Unmodified", "Untracked"})
    /\ \A k \in 1..Len(results) :
          results[k].hasInfo => results[k].err.kind = "none"
    /\ (pc = "idle" /\ results # <<>> /\ ~Last.hasInfo) =>
          Last.err.kind \in {"not_found", "open", "head"}

\* C10 witness: the only differences are untracked files and the returned
\* VersionInfo is clean
C10_Witness ==
    /\ Returned
    /\ Repo.status.ok
    /\ Repo.status.files = {[Staging |-> "Untracked", Worktree |-> "Untracked"]}
    /\ ~Last.info.IsDirty
    /\ Last.err.kind = "none"

\* the repository a finished call resolved against
RepoOf(r) == repos[Nearest(r.call.path)]

\* two repositories in the same state: the same history, HEAD, tag references,
\* remote HEAD, local branches and working tree; only the order in which their
\* stores enumerate the tag references may differ
SameState(R, Q) ==
    /\ R.ok = Q.ok
    /\ R.parents = Q.parents
    /\ R.head = Q.head
    /\ R.tags = Q.tags
    /\ R.originHead = Q.originHead
    /\ R.branches = Q.branches
    /\ R.status = Q.status

\* C11: two resolutions against the same repository state with a clean tree
\* return the same version, describe and latestTag; when several tags point at
\* one commit the tag chosen does not depend on the order in which the tag
\* references are enumerated.
C11_TagChoiceOrderIndependent ==
    \A i, j \in 1..Len(results) :
        LET r == results[i]
            q == results[j]
        IN  (/\ r.hasInfo /\ q.hasInfo
             /\ r.call.defaultBranch = q.call.defaultBranch
             /\ SameState(RepoOf(r), RepoOf(q))
             /\ ~r.info.IsDirty /\ ~q.info.IsDirty)
            => /\ q.info.Version = r.info.Version
               /\ q.info.GitDescribe = r.info.GitDescribe
               /\ q.info.LatestTag = r.info.LatestTag

\* the repository the running call has located cannot be opened or has no commit
Unresolvable(R) == ~R.ok \/ R.head.kind = "unborn"

\* C12: when the repository cannot be opened or HEAD cannot be resolved, the
\* call returns an error and no VersionInfo, not even a partly filled one,
\* whatever the override, the tags and the working tree are; the call ends
\* there: the step that meets the failure returns, once, and no later step of
\* the resolution runs for it.
C12_FailureReturnsNoInfo ==
    /\ [](\A k \in 1..Len(results) :
            LET r == results[k]
            IN  (MarkedAncestors(r.call.path) # {} /\ Unresolvable(RepoOf(r))) =>
                   /\ ~r.hasInfo
                   /\ r.info = ZeroInfo
                   /\ r.err.kind = (IF ~RepoOf(r).ok THEN "open" ELSE "head")
                   /\ r.err.path = Nearest(r.call.path))
    /\ [](pc \in {"tags", "describe", "walk", "dirty", "compose", "suffix"}
             => ~Unresolvable(Repo))
    /\ [][((pc = "open" /\ ~Repo.ok) \/ (pc = "head" /\ Repo.head.kind = "unborn")) =>
             /\ pc' = "idle"
             /\ Len(results') = Len(results) + 1
             /\ results'[Len(results')].call = call
             /\ ~results'[Len(results')].hasInfo
             /\ args' = args]_vars

\* C12 witness: a repository without a commit that has a tag reference and a
\* modified working tree, resolved with an override: the HEAD error, no info
C12_Witness ==
    /\ pc = "idle" /\ results # <<>>
    /\ Last.err.kind = "head"
    /\ ~Last.hasInfo
    /\ Last.call.defaultBranch # <<>>
    /\ RepoOf(Last).tags # {}
    /\ RepoOf(Last).status = ModifiedStatus

RECURSIVE Traversal(_, _, _)
\* the commits in the order the history is traversed: a commit, then the
\* history of its first parent, then of its next parent, every commit once
Traversal(g, todo, visited) ==
    IF todo = <<>> THEN <<>>
    ELSE IF Head(todo) \in visited THEN Traversal(g, Tail(todo), visited)
    ELSE <<Head(todo)>>
         \o Traversal(g, g[Head(todo)] \o Tail(todo), visited \cup {Head(todo)})

\* the traversal from HEAD
FromHead == Traversal(Repo.parents, <<Repo.head.hash>>, {})

\* the positions of the tagged commits in the traversal from HEAD
TaggedAt == {k \in 1..Len(FromHead) : FromHead[k] \in DOMAIN tagMap}

\* the position of the first tagged commit the traversal meets (HEAD is at 1)
FirstTagged == CHOOSE k \in TaggedAt : \A j \in TaggedAt : k <= j

\* the walk from an untagged HEAD has found a tagged commit
WalkHasFound ==
    Described /\ Repo.head.hash \notin DOMAIN tagMap /\ TaggedAt # {}

\* the number rendered between "{T}-" and "-g{short}" in d
RenderedDistance(d, T, short) ==
    DecValue(SubSeq(d, Len(T) + 2, Len(d) - Len(short) - 2))

\* C13 as stated: when the walk from an untagged HEAD finds a tagged commit, the
\* distance rendered in describe is the number of commits strictly between the
\* tagged commit and HEAD along the traversal, neither of the two counted.
C13_DistanceStrictlyBetween ==
    WalkHasFound =>
        RenderedDistance(info.GitDescribe, info.LatestTag, info.GitCommitShort)
            = FirstTagged - 2

\* C13 amended: when the walk from an untagged HEAD finds a tagged commit, the
\* distance rendered in describe is the number of commits the traversal visits
\* before the tagged commit, HEAD counted and the tagged commit not: one more
\* than the number of commits strictly between the two.
C13_DistanceCountsHead ==
    WalkHasFound =>
        /\ info.LatestTag = tagMap[FromHead[FirstTagged]]
        /\ IsDescribeOf(info.GitDescribe, info.LatestTag, FirstTagged - 1,
                        info.GitCommitShort)
        /\ RenderedDistance(info.GitDescribe, info.LatestTag, info.GitCommitShort)
              = (FirstTagged - 2) + 1
        /\ distance = FirstTagged - 1

\* C13 witness: HEAD is a merge, its first parent is untagged and the tagged
\* commit is the third the traversal visits: the distance rendered is 2
C13_Witness ==
    /\ Returned
    /\ Repo.head.hash \notin DOMAIN tagMap
    /\ Len(Repo.parents[Repo.head.hash]) = 2
    /\ TaggedAt # {}
    /\ FirstTagged = 3
    /\ info.GitDescribe = sTagV1 \o <<"-", "2", "-", "g">> \o Head7

\* what ".git" is in directory p ("none" as well when p is no directory)
MarkerAt(p) == IF p \in Dirs THEN marker[p] ELSE "none"

\* the directories from p up to the start path, p excluded
Below(p) == {d \in Dirs : IsAncestorDir(d, origPath) /\ IsAncestorDir(p, d) /\ d # p}

\* one step of the root walk at candidate absPath
RootWalkStep ==
    \/ /\ MarkerAt(absPath) \in {"dir", "file"}
       /\ gitRoot' = absPath
       /\ pc' = "open"
    \/ /\ MarkerAt(absPath) \notin {"dir", "file"}
       /\ absPath # <<"/">>
       /\ pc' = "locate"
       /\ absPath' \in Dirs
       /\ Len(absPath') < Len(absPath)
       /\ DepthOf(absPath') = DepthOf(absPath) - 1
       /\ IsAncestorDir(absPath', absPath)
    \/ /\ MarkerAt(absPath) \notin {"dir", "file"}
       /\ absPath = <<"/">>
       /\ pc' = "idle"
       /\ results' = Append(results, [call |-> call,
                                      err |-> [kind |-> "not_found", path |-> call.path],
                                      hasInfo |-> FALSE, info |-> ZeroInfo])

\* C14: the root walk terminates. Each step either finds ".git" (a directory or
\* a regular file) at the candidate and stops, or replaces the candidate by its
\* parent, which is strictly shorter, or, at "/", stops with the not-found error
\* that names the start path; the walk has passed only directories without the
\* marker, and a call fails in this way exactly when no directory from the
\* start path up to "/" contains the marker.
C14_RootWalkTerminates ==
    /\ [][pc = "locate" => RootWalkStep]_vars
    /\ [](pc = "locate" =>
             /\ origPath = call.path
             /\ absPath \in Dirs
             /\ IsAncestorDir(absPath, origPath)
             /\ \A d \in Below(absPath) : MarkerAt(d) \notin {"dir", "file"})
    /\ [](\A k \in 1..Len(results) :
             /\ results[k].err.kind = "not_found" <=> MarkedAncestors(results[k].call.path) = {}
             /\ results[k].err.kind = "not_found" => results[k].err.path = results[k].call.path)
    /\ (pc = "locate" ~> pc # "locate")

\* C14 witness: a call from the deepest directory, above which only a ".git"
\* that is neither a directory nor a regular file exists, has failed with the
\* not-found error naming that directory
C14_Witness ==
    /\ pc = "idle" /\ results # <<>>
    /\ Last.call.path = DirAt(MaxDepth)
    /\ \E d \in Dirs : marker[d] = "other"
    /\ Last.err = [kind |-> "not_found", path |-> DirAt(MaxDepth)]
    /\ absPath = <<"/">>

\* the tag of the first tagged commit the traversal from HEAD meets, "" if none
NearestTag ==
    IF TaggedAt = {} THEN <<>> ELSE tagMap[FromHead[FirstTagged]]

\* describe and latestTag of VersionInfo i fit together: both empty, or describe
\* is latestTag, or latestTag, "-", a distance of 1..maxd, "-g" and commitShort
PairWellFormed(i, maxd) ==
    /\ i.LatestTag = <<>> <=> i.GitDescribe = <<>>
    /\ i.GitDescribe # <<>> =>
          \/ i.GitDescribe = i.LatestTag
          \/ \E d \in 1..maxd :
                IsDescribeOf(i.GitDescribe, i.LatestTag, d, i.GitCommitShort)

\* C15: in every returned VersionInfo, on the default branch and on any other,
\* latestTag is empty exactly when describe is; when they are not, describe is
\* latestTag itself or latestTag, "-", a distance d >= 1, "-g" and commitShort.
\* Both are determined by HEAD, the history and the tag map: they are those of
\* the first tagged commit of the traversal from HEAD, and two calls that agree
\* on these return the same two fields whatever their branch, default branch
\* and dirty flag are.
C15_DescribeAndLatestTag ==
    /\ \A k \in 1..Len(results) :
          results[k].hasInfo =>
              PairWellFormed(results[k].info, Len(RepoOf(results[k]).parents))
    /\ Described =>
          /\ info.LatestTag = NearestTag
          /\ IF NearestTag = <<>> THEN info.GitDescribe = <<>>
             ELSE IF FirstTagged = 1 THEN info.GitDescribe = NearestTag
             ELSE IsDescribeOf(info.GitDescribe, NearestTag, FirstTagged - 1, Head7)
    /\ \A i, j \in 1..Len(results) :
          LET r == results[i]
              q == results[j]
          IN  (/\ r.hasInfo /\ q.hasInfo
               /\ RepoOf(r).parents = RepoOf(q).parents
               /\ RepoOf(r).head.hash = RepoOf(q).head.hash
               /\ RepoOf(r).tagOrder = RepoOf(q).tagOrder)
              => /\ q.info.GitDescribe = r.info.GitDescribe
                 /\ q.info.LatestTag = r.info.LatestTag

\* C15 witness: two calls on the same history, HEAD and tags, the first on the
\* default branch with a clean tree, the second off it with a dirty tree:
\* both return latestTag v1.0.0 and describe "v1.0.0-1-g" and commitShort
C15_Witness ==
    /\ Len(results) = 2
    /\ results[1].hasInfo /\ results[2].hasInfo
    /\ results[1].info.GitBranch = results[1].info.DefaultBranch
    /\ ~results[1].info.IsDirty
    /\ results[2].info.GitBranch # results[2].info.DefaultBranch
    /\ results[2].info.IsDirty
    /\ results[2].info.LatestTag = sTagV1
    /\ results[2].info.GitDescribe =
          sTagV1 \o <<"-", "1", "-", "g">> \o results[2].info.GitCommitShort
    /\ results[1].info.GitDescribe = results[2].info.GitDescribe

====
